---- MODULE Spec2Model ----
(***************************************************************************)
(* The PXC image codec of pallight: the palette, RLE-delta and LZW stages, *)
(* the pipeline driver (compress / decompress) and the container           *)
(* (encode / decode).  Every stage is a pure function; it is modelled as   *)
(* an operator that computes what the Rust code computes, loop by loop.    *)
(* The state machine is a client of the library: it calls one function on  *)
(* an input drawn from a bounded family, or on the value the previous call *)
(* returned, and records the call.  palette_compression is also run one    *)
(* loop iteration at a time, so that its loop state can be observed.  An   *)
(* LZW call also leaves a summary of its locals (next_code, the dictionary *)
(* size, the largest code assigned) in lzw.  SpecLimit is the same client  *)
(* restricted to the LZW functions, on inputs long enough to fill the      *)
(* dictionary up to the code limit; there the state keeps a description of *)
(* the input and a summary of the output instead of the byte sequences.    *)
(* The editor's palette (a list of colours and the index of the current    *)
(* one) is the variable editor; SpecEditor is the editor's user calling    *)
(* the palette's methods, and a panic of a method ends it.                 *)
(***************************************************************************)
EXTENDS Integers, Sequences, FiniteSets, TLC

VARIABLES op, input, output, prev, run, lzw, editor

vars == <<op, input, output, prev, run, lzw, editor>>

(***************************************************************************)
(* Bounds of the explored inputs.                                          *)
(***************************************************************************)
\* longest byte sequence enumerated exhaustively over Alphabet
MaxLen == 4
\* longest pixel sequence enumerated exhaustively over Colours
MaxPixels == 4
\* longest arithmetic run of bytes (constant delta) given as input
MaxRun == 257
\* largest number of distinct colours of a gradient image given as input
MaxColours == 257
\* longest stream of 16-bit codes enumerated exhaustively over Codes
MaxCodes == 3
\* largest palette index the editor's user picks and recolours, apart from the
\* last index of a full palette and the one after it
MaxEditorIndex == 2

(***************************************************************************)
(* Results of a call: Ok(value), Err(error) or a panic (an index out of    *)
(* range aborts the call).                                                 *)
(***************************************************************************)
Ok(v) == [tag |-> "Ok", val |-> v]
Err(e) == [tag |-> "Err", err |-> e]
Panic == [tag |-> "Panic"]
NoError == [kind |-> "none"]
\* the error slot of a loop whose iteration panicked on an index out of range
IndexOutOfRange == [kind |-> "IndexOutOfRange"]

IsOk(r) == r.tag = "Ok"
IsErr(r) == r.tag = "Err"

\* u8 and u16 casts (`as u8`, `as u16`) and wrapping arithmetic
U8(n) == n % 256
wrapping_sub(a, b) == (a - b) % 256
wrapping_add(a, b) == (a + b) % 256

\* A `for` loop over lo..hi: body(st, k) applied for k = lo, lo + 1, ..., hi in
\* order, starting from the locals st, and left as soon as an iteration returns
\* early with an error (st.err).  The range is split in two so that the
\* evaluation depth stays logarithmic; the order of the iterations is kept.
RECURSIVE Iterate(_, _, _, _)
Iterate(body(_, _), st, lo, hi) ==
  IF lo > hi THEN st
  ELSE IF lo = hi THEN body(st, lo)
  ELSE LET mid == (lo + hi) \div 2
           left == Iterate(body, st, lo, mid)
       IN IF left.err # NoError THEN left ELSE Iterate(body, left, mid + 1, hi)

\* Iterate for a loop whose body only appends to st.result and never reads it:
\* the second half of the iterations starts from an empty result and what it
\* appended is appended to the result of the first half
RECURSIVE IterateEmit(_, _, _, _)
IterateEmit(body(_, _), st, lo, hi) ==
  IF lo > hi THEN st
  ELSE IF lo = hi THEN body(st, lo)
  ELSE LET mid == (lo + hi) \div 2
           left == IterateEmit(body, st, lo, mid)
       IN IF left.err # NoError THEN left
          ELSE LET right == IterateEmit(body, [left EXCEPT !.result = <<>>], mid + 1, hi)
               IN [right EXCEPT !.result = left.result \o @]

(***************************************************************************)
(* Palette stage.                                                          *)
(***************************************************************************)
InvalidPixelDataLength(n) == [kind |-> "InvalidPixelDataLength", n |-> n]
PaletteOverflow(n) == [kind |-> "PaletteOverflow", n |-> n]
InvalidPaletteIndex(i, n) == [kind |-> "InvalidPaletteIndex", index |-> i, palette_size |-> n]

\* pixels.chunks(4): the i-th chunk (i from 1)
chunk4(pixels, i) == SubSeq(pixels, 4 * i - 3, 4 * i)

\* the locals of palette_compression before the first iteration
palette_init(pixels) ==
  [pixels |-> pixels, i |-> 0, unique_colors |-> <<>>, palette |-> <<>>,
   indices |-> <<>>, err |-> NoError]

\* palette_step with a hit answered by the newest index, not the stored one
palette_step_newest_index(st, color) ==
  IF color \in DOMAIN st.unique_colors
  THEN [st EXCEPT !.i = @ + 1,
                  !.indices = Append(@, U8(Len(st.palette) - 1))]
  ELSE IF Len(st.palette) >= 256
       THEN [st EXCEPT !.err = PaletteOverflow(Len(st.palette) + 1)]
       ELSE LET index == U8(Len(st.palette)) IN
            [st EXCEPT !.i = @ + 1,
                       !.palette = Append(@, color),
                       !.unique_colors = (color :> index) @@ @,
                       !.indices = Append(@, index)]

\* palette_step with the size check off by one (`>` for `>=`)
palette_step_late_check(st, color) ==
  IF color \in DOMAIN st.unique_colors
  THEN [st EXCEPT !.i = @ + 1,
                  !.indices = Append(@, st.unique_colors[color])]
  ELSE IF Len(st.palette) > 256
       THEN [st EXCEPT !.err = PaletteOverflow(Len(st.palette) + 1)]
       ELSE LET index == U8(Len(st.palette)) IN
            [st EXCEPT !.i = @ + 1,
                       !.palette = Append(@, color),
                       !.unique_colors = (color :> index) @@ @,
                       !.indices = Append(@, index)]

\* palette_step that does not record a new colour in unique_colors
palette_step_no_insert(st, color) ==
  IF color \in DOMAIN st.unique_colors
  THEN [st EXCEPT !.i = @ + 1,
                  !.indices = Append(@, st.unique_colors[color])]
  ELSE IF Len(st.palette) >= 256
       THEN [st EXCEPT !.err = PaletteOverflow(Len(st.palette) + 1)]
       ELSE LET index == U8(Len(st.palette)) IN
            [st EXCEPT !.i = @ + 1,
                       !.palette = Append(@, color),
                       !.indices = Append(@, index)]

\* one iteration of `for pixel in pixels.chunks(4)` on the pixel `color`
palette_step(st, color) ==
  IF color \in DOMAIN st.unique_colors
  THEN [st EXCEPT !.i = @ + 1,
                  !.indices = Append(@, st.unique_colors[color])]
  ELSE IF Len(st.palette) >= 256
       THEN [st EXCEPT !.err = PaletteOverflow(Len(st.palette) + 1)]
       ELSE LET index == U8(Len(st.palette)) IN
            [st EXCEPT !.i = @ + 1,
                       !.palette = Append(@, color),
                       !.unique_colors = (color :> index) @@ @,
                       !.indices = Append(@, index)]

\* the loop has ended: every chunk consumed, or an early return
palette_done(st) == st.err # NoError \/ 4 * st.i >= Len(st.pixels)

\* the k-th iteration of the loop
palette_iter(st, k) == palette_step(st, chunk4(st.pixels, k))

palette_loop(st) == Iterate(palette_iter, st, 1, Len(st.pixels) \div 4)

\* what palette_compression returns from the final loop state
palette_result(st) ==
  IF st.err # NoError THEN Err(st.err)
  ELSE Ok([palette |-> st.palette, indices |-> st.indices])

palette_compression(pixels) ==
  IF Len(pixels) % 4 # 0 THEN Err(InvalidPixelDataLength(Len(pixels)))
  ELSE palette_result(palette_loop(palette_init(pixels)))

\* palette_decode_step with the two fields of the error swapped
palette_decode_step_swapped(st, k) ==
       LET palette_size == Len(st.compression.palette)
           index_usize == st.compression.indices[k]
       IN IF index_usize >= palette_size
          THEN [st EXCEPT !.err = InvalidPaletteIndex(palette_size, index_usize)]
          ELSE [st EXCEPT !.decoded_pixels = @ \o st.compression.palette[index_usize + 1]]

\* one iteration of `for &index in &compression.indices`
palette_decode_step(st, k) ==
       LET palette_size == Len(st.compression.palette)
           index_usize == st.compression.indices[k]
       IN IF index_usize >= palette_size
          THEN [st EXCEPT !.err = InvalidPaletteIndex(index_usize, palette_size)]
          ELSE [st EXCEPT !.decoded_pixels = @ \o st.compression.palette[index_usize + 1]]

palette_decompression(compression) ==
  LET st == Iterate(palette_decode_step,
                    [compression |-> compression, decoded_pixels |-> <<>>, err |-> NoError],
                    1, Len(compression.indices))
  IN IF st.err # NoError THEN Err(st.err) ELSE Ok(st.decoded_pixels)

(***************************************************************************)
(* RLE-delta stage.                                                        *)
(***************************************************************************)
EmptyInput == [kind |-> "EmptyInput"]
InvalidInputLength(n) == [kind |-> "InvalidInputLength", n |-> n]

\* largest value of the u16 run counter
U16_MAX == 65535

\* `while count > 255 { push(255); push(0); count -= 255 }` and the pair after it
RECURSIVE emit_zero_run(_, _)
emit_zero_run(encoded, count) ==
  IF count > 255 THEN emit_zero_run(encoded \o <<255, 0>>, count - 255)
  ELSE encoded \o <<U8(count), 0>>

\* the block that writes a finished run, without the split of a run of equal bytes
emit_run_unsplit(encoded, count, prev_delta) == encoded \o <<U8(count), prev_delta>>

\* the block that writes a finished run (in the loop and as the final block)
emit_run(encoded, count, prev_delta) ==
  IF prev_delta = 0 THEN emit_zero_run(encoded, count)
  ELSE encoded \o <<U8(count), prev_delta>>

\* the condition under which the run counter is incremented
rle_extends_run(current_delta, prev_delta, count) ==
  current_delta = prev_delta /\ count < U16_MAX

\* one iteration of `for i in 1..data.len() - 1` (i is the Rust index)
rle_step(st, i) ==
  LET current_delta == wrapping_sub(st.data[i + 2], st.data[i + 1]) IN
  IF rle_extends_run(current_delta, st.prev_delta, st.count)
  THEN [st EXCEPT !.count = @ + 1]
  ELSE [st EXCEPT !.encoded = emit_run(@, st.count, st.prev_delta),
                  !.count = 1,
                  !.prev_delta = current_delta]

rle_loop(st) == Iterate(rle_step, st, 1, Len(st.data) - 2)

rle_delta_compression(data) ==
  IF Len(data) = 0 THEN Err(EmptyInput)
  ELSE IF Len(data) < 2 THEN Panic \* data[1] is out of range
  ELSE LET initial_value == data[1]
           st0 == [data |-> data, encoded |-> <<initial_value>>, count |-> 1,
                   prev_delta |-> wrapping_sub(data[2], initial_value), err |-> NoError]
           st == rle_loop(st0)
       IN Ok(emit_run(st.encoded, st.count, st.prev_delta))

\* rle_expand_step adding delta to the first byte instead of the previous one
rle_expand_step_from_initial(st, n) ==
  LET v == wrapping_add(st.data[1], st.delta) IN
  [st EXCEPT !.current_value = v, !.decoded = Append(@, v)]

\* one iteration of `for _ in 0..count`: the previous byte plus delta
rle_expand_step(st, n) ==
  LET v == wrapping_add(st.current_value, st.delta) IN
  [st EXCEPT !.current_value = v, !.decoded = Append(@, v)]

\* one iteration of `while i < data.len()`: the k-th (count, delta) pair, at
\* the Rust index i = 2k - 1; data[i + 1] past the end is out of range
rle_decode_step(st, k) ==
  LET i == 2 * k - 1 IN
  IF i + 1 >= Len(st.data) THEN [st EXCEPT !.err = IndexOutOfRange]
  ELSE LET count == st.data[i + 1]
           delta == st.data[i + 2]
       IN Iterate(rle_expand_step, [st EXCEPT !.delta = delta], 1, count)

\* rle_delta_decompression with the empty check alone
rle_delta_decompression_any_length(data) ==
  IF Len(data) = 0 THEN Err(EmptyInput)
  ELSE LET initial_value == data[1]
           st0 == [data |-> data, decoded |-> <<initial_value>>,
                   current_value |-> initial_value, delta |-> 0, err |-> NoError]
           st == Iterate(rle_decode_step, st0, 1, Len(data) \div 2)
       IN IF st.err = IndexOutOfRange THEN Panic ELSE Ok(st.decoded)

\* rle_delta_decompression without the `data.len() < 3` half of the length check
rle_delta_decompression_odd_only(data) ==
  IF Len(data) = 0 THEN Err(EmptyInput)
  ELSE IF Len(data) % 2 # 1 THEN Err(InvalidInputLength(Len(data)))
  ELSE LET initial_value == data[1]
           st0 == [data |-> data, decoded |-> <<initial_value>>,
                   current_value |-> initial_value, delta |-> 0, err |-> NoError]
       IN Ok(Iterate(rle_decode_step, st0, 1, (Len(data) - 1) \div 2).decoded)

rle_delta_decompression(data) ==
  IF Len(data) = 0 THEN Err(EmptyInput)
  ELSE IF Len(data) < 3 \/ Len(data) % 2 # 1 THEN Err(InvalidInputLength(Len(data)))
  ELSE LET initial_value == data[1]
           st0 == [data |-> data, decoded |-> <<initial_value>>,
                   current_value |-> initial_value, delta |-> 0, err |-> NoError]
           st == Iterate(rle_decode_step, st0, 1, Len(data) \div 2)
       IN IF st.err = IndexOutOfRange THEN Panic ELSE Ok(st.decoded)

(***************************************************************************)
(* LZW stage.                                                              *)
(***************************************************************************)
DictionaryOverflow == [kind |-> "DictionaryOverflow"]
IncompleteCode(position) == [kind |-> "IncompleteCode", position |-> position]
InvalidCode(code, dict_size) == [kind |-> "InvalidCode", code |-> code, dict_size |-> dict_size]

\* the value next_code may not reach past: no entry is added at this code
LZW_LIMIT == 65535

\* to_le_bytes with the high byte first
to_le_bytes_swapped(code) == <<code \div 256, code % 256>>

to_le_bytes(code) == <<code % 256, code \div 256>>
from_le_bytes(b0, b1) == b0 + 256 * b1

\* the encoder's HashMap<Vec<u8>, u16>: one bucket of keys for each first byte
\* of a key (the hash), seeded with the 256 single bytes
lzw_initial_map == [b \in 0..255 |-> (<<b>> :> b)]
contains_key(dictionary, key) == key \in DOMAIN dictionary[key[1]]
get(dictionary, key) == dictionary[key[1]][key]
insert(dictionary, key, value) ==
  [dictionary EXCEPT ![key[1]] = (key :> value) @@ @]

\* `if let Some(&code) = dictionary.get(&current) { result.extend(code.to_le_bytes()) }`
lzw_emit(dictionary, result, current) ==
  IF contains_key(dictionary, current)
  THEN result \o to_le_bytes(get(dictionary, current))
  ELSE result

\* lzw_comp_step adding an entry while next_code <= 65535
lzw_comp_step_inclusive(st, k) ==
  LET byte == st.data[k]
      next == Append(st.current, byte) IN
  IF contains_key(st.dictionary, next) THEN [st EXCEPT !.current = next]
  ELSE LET result == lzw_emit(st.dictionary, st.result, st.current) IN
       IF st.next_code <= LZW_LIMIT
       THEN [st EXCEPT !.result = result,
                       !.dictionary = insert(@, next, st.next_code),
                       !.next_code = @ + 1,
                       !.current = <<byte>>]
       ELSE [st EXCEPT !.result = result, !.err = DictionaryOverflow]

\* one iteration of `for &byte in &data[1..]`, on the k-th byte of data
lzw_comp_step(st, k) ==
  LET byte == st.data[k]
      next == Append(st.current, byte) IN
  IF contains_key(st.dictionary, next) THEN [st EXCEPT !.current = next]
  ELSE LET result == lzw_emit(st.dictionary, st.result, st.current) IN
       IF st.next_code < LZW_LIMIT
       THEN [st EXCEPT !.result = result,
                       !.dictionary = insert(@, next, st.next_code),
                       !.next_code = @ + 1,
                       !.current = <<byte>>]
       ELSE [st EXCEPT !.result = result, !.err = DictionaryOverflow]

lzw_comp_loop(st) == IterateEmit(lzw_comp_step, st, 2, Len(st.data))

\* the locals before the loop; `current` is set only when data is not empty
lzw_comp_init(data) ==
  [data |-> data, dictionary |-> lzw_initial_map, result |-> <<>>,
   next_code |-> 256, current |-> IF Len(data) = 0 THEN <<>> ELSE <<data[1]>>,
   err |-> NoError]

\* the locals when the function returns
lzw_comp_end(data) ==
  IF Len(data) = 0 THEN lzw_comp_init(data) ELSE lzw_comp_loop(lzw_comp_init(data))

\* the value returned from the locals st
lzw_comp_return(st) ==
  IF Len(st.data) = 0 THEN Ok(st.result)
  ELSE IF st.err # NoError THEN Err(st.err)
  ELSE Ok(lzw_emit(st.dictionary, st.result, st.current))

lzw_compression(data) == lzw_comp_return(lzw_comp_end(data))

\* Option<u16>
None == [some |-> FALSE]
Some(v) == [some |-> TRUE, v |-> v]

\* the decoder's Vec<LZWEntry> seeded with the 256 single bytes
lzw_initial_entries == [i \in 1..256 |-> [prefix |-> None, suffix |-> i - 1]]

Reverse(s) == [k \in 1..Len(s) |-> s[Len(s) + 1 - k]]

\* `while let Some(entry) = dictionary.get(code)`: the suffixes, last byte first
RECURSIVE get_string_walk(_, _, _)
get_string_walk(dictionary, code, result) ==
  IF code >= Len(dictionary) THEN result
  ELSE LET entry == dictionary[code + 1] IN
       IF entry.prefix.some
       THEN get_string_walk(dictionary, entry.prefix.v, Append(result, entry.suffix))
       ELSE Append(result, entry.suffix)

get_string(dictionary, code) == Reverse(get_string_walk(dictionary, code, <<>>))

\* lzw_kwkwk without the push of the first byte
lzw_kwkwk_no_push(previous_string) == previous_string

\* the special case: the code is the next one to be added
lzw_kwkwk(previous_string) == Append(previous_string, previous_string[1])

\* data[2..].chunks(2): the chunk with index k (from 0) and the number of chunks
lzw_chunk(data, k) ==
  SubSeq(data, 3 + 2 * k, IF 4 + 2 * k <= Len(data) THEN 4 + 2 * k ELSE Len(data))
\* lzw_num_chunks as chunks_exact(2) would count: a dangling byte is no chunk
lzw_num_chunks_exact(data) == (Len(data) - 2) \div 2

lzw_num_chunks(data) == (Len(data) - 2 + 1) \div 2

\* lzw_decomp_step taking every code that is not in the dictionary for the
\* special case
lzw_decomp_step_any_special(st, chunk_index) ==
  LET chunk == lzw_chunk(st.data, chunk_index) IN
  IF Len(chunk) < 2 THEN [st EXCEPT !.err = IncompleteCode(2 + chunk_index * 2)]
  ELSE
  LET current_code == from_le_bytes(chunk[1], chunk[2])
      known == current_code < Len(st.dictionary)
      special == current_code >= Len(st.dictionary) /\ st.next_code < LZW_LIMIT
  IN IF ~known /\ ~special
     THEN [st EXCEPT !.err = InvalidCode(current_code, Len(st.dictionary))]
     ELSE
     LET current_string == IF known THEN get_string(st.dictionary, current_code)
                           ELSE lzw_kwkwk(st.previous_string)
     IN IF st.next_code < LZW_LIMIT
        THEN [st EXCEPT !.result = @ \o current_string,
                        !.dictionary = Append(@, [prefix |-> Some(st.previous_code),
                                                  suffix |-> current_string[1]]),
                        !.next_code = @ + 1,
                        !.previous_code = current_code,
                        !.previous_string = current_string]
        ELSE [st EXCEPT !.result = @ \o current_string, !.err = DictionaryOverflow]

\* lzw_decomp_step taking the special case whatever next_code is
lzw_decomp_step_special_at_limit(st, chunk_index) ==
  LET chunk == lzw_chunk(st.data, chunk_index) IN
  IF Len(chunk) < 2 THEN [st EXCEPT !.err = IncompleteCode(2 + chunk_index * 2)]
  ELSE
  LET current_code == from_le_bytes(chunk[1], chunk[2])
      known == current_code < Len(st.dictionary)
      special == current_code = Len(st.dictionary)
  IN IF ~known /\ ~special
     THEN [st EXCEPT !.err = InvalidCode(current_code, Len(st.dictionary))]
     ELSE
     LET current_string == IF known THEN get_string(st.dictionary, current_code)
                           ELSE lzw_kwkwk(st.previous_string)
     IN IF st.next_code < LZW_LIMIT
        THEN [st EXCEPT !.result = @ \o current_string,
                        !.dictionary = Append(@, [prefix |-> Some(st.previous_code),
                                                  suffix |-> current_string[1]]),
                        !.next_code = @ + 1,
                        !.previous_code = current_code,
                        !.previous_string = current_string]
        ELSE [st EXCEPT !.result = @ \o current_string, !.err = DictionaryOverflow]

\* the pushed entry with the last byte of the string as suffix
lzw_entry_suffix_last(previous_code, current_string) ==
  [prefix |-> Some(previous_code), suffix |-> current_string[Len(current_string)]]

\* the pushed entry without a prefix
lzw_entry_no_prefix(previous_code, current_string) ==
  [prefix |-> None, suffix |-> current_string[1]]

\* LZWEntry { prefix: Some(previous_code), suffix: current_string[0] }
lzw_entry(previous_code, current_string) ==
  [prefix |-> Some(previous_code), suffix |-> current_string[1]]

\* one iteration of `for (chunk_index, chunk) in data[2..].chunks(2).enumerate()`;
\* previous_string[0] of an empty previous_string is out of range
lzw_decomp_step(st, chunk_index) ==
  LET chunk == lzw_chunk(st.data, chunk_index) IN
  IF Len(chunk) < 2 THEN [st EXCEPT !.err = IncompleteCode(2 + chunk_index * 2)]
  ELSE
  LET current_code == from_le_bytes(chunk[1], chunk[2])
      known == current_code < Len(st.dictionary)
      special == current_code = Len(st.dictionary) /\ st.next_code < LZW_LIMIT
  IN IF ~known /\ ~special
     THEN [st EXCEPT !.err = InvalidCode(current_code, Len(st.dictionary))]
     ELSE IF ~known /\ st.previous_string = <<>> THEN [st EXCEPT !.err = IndexOutOfRange]
     ELSE
     LET current_string == IF known THEN get_string(st.dictionary, current_code)
                           ELSE lzw_kwkwk(st.previous_string)
     IN IF st.next_code < LZW_LIMIT
        THEN [st EXCEPT !.result = @ \o current_string,
                        !.dictionary = Append(@, lzw_entry(st.previous_code, current_string)),
                        !.next_code = @ + 1,
                        !.previous_code = current_code,
                        !.previous_string = current_string]
        ELSE [st EXCEPT !.result = @ \o current_string, !.err = DictionaryOverflow]

lzw_decomp_loop(st) == IterateEmit(lzw_decomp_step, st, 0, lzw_num_chunks(st.data) - 1)

\* the locals before the loop, or at the early return that the first code takes
lzw_decomp_init(data) ==
  LET dictionary == lzw_initial_entries
      st == [data |-> data, dictionary |-> dictionary, result |-> <<>>,
             previous_code |-> 0, previous_string |-> <<>>,
             next_code |-> 256, err |-> NoError]
  IN IF Len(data) = 0 THEN st
     ELSE IF Len(data) < 2 THEN [st EXCEPT !.err = IncompleteCode(0)]
     ELSE LET previous_code == from_le_bytes(data[1], data[2]) IN
          IF previous_code >= Len(dictionary)
          THEN [st EXCEPT !.err = InvalidCode(previous_code, Len(dictionary))]
          ELSE LET previous_string == get_string(dictionary, previous_code)
               IN [st EXCEPT !.result = previous_string,
                             !.previous_code = previous_code,
                             !.previous_string = previous_string]

\* the locals when the function returns
lzw_decomp_end(data) ==
  LET st0 == lzw_decomp_init(data)
  IN IF Len(data) = 0 \/ st0.err # NoError THEN st0 ELSE lzw_decomp_loop(st0)

\* the value returned from the locals st
lzw_decomp_return(st) ==
  IF st.err = IndexOutOfRange THEN Panic
  ELSE IF st.err # NoError THEN Err(st.err) ELSE Ok(st.result)

lzw_decompression(data) == lzw_decomp_return(lzw_decomp_end(data))

(***************************************************************************)
(* Pipeline driver.                                                        *)
(***************************************************************************)
PaletteCompressionFailed(e) == [kind |-> "PaletteCompressionFailed", inner |-> e]
RleDeltaCompressionFailed(e) == [kind |-> "RleDeltaCompressionFailed", inner |-> e]
LzwCompressionFailed(e) == [kind |-> "LzwCompressionFailed", inner |-> e]
PaletteDecompressionFailed(e) == [kind |-> "PaletteDecompressionFailed", inner |-> e]
RleDeltaDecompressionFailed(e) == [kind |-> "RleDeltaDecompressionFailed", inner |-> e]
LzwDecompressionFailed(e) == [kind |-> "LzwDecompressionFailed", inner |-> e]

compress(data) ==
  LET palette_compressed == palette_compression(data) IN
  IF ~IsOk(palette_compressed)
  THEN Err(PaletteCompressionFailed(palette_compressed.err))
  ELSE
  LET rle_delta_encoded == rle_delta_compression(palette_compressed.val.indices) IN
  IF rle_delta_encoded = Panic THEN Panic
  ELSE IF ~IsOk(rle_delta_encoded)
  THEN Err(RleDeltaCompressionFailed(rle_delta_encoded.err))
  ELSE
  LET lzw_compressed == lzw_compression(rle_delta_encoded.val) IN
  IF ~IsOk(lzw_compressed) THEN Err(LzwCompressionFailed(lzw_compressed.err))
  ELSE Ok([palette |-> palette_compressed.val.palette, data |-> lzw_compressed.val])

\* decompress reporting an RLE-delta error in the LZW wrapper
decompress_rle_as_lzw(data) ==
  LET lzw_decompressed == lzw_decompression(data.data) IN
  IF ~IsOk(lzw_decompressed) THEN Err(LzwDecompressionFailed(lzw_decompressed.err))
  ELSE
  LET rle_delta_decoded == rle_delta_decompression(lzw_decompressed.val) IN
  IF ~IsOk(rle_delta_decoded)
  THEN Err(LzwDecompressionFailed(rle_delta_decoded.err))
  ELSE
  LET expanded_pixels == palette_decompression([palette |-> data.palette,
                                                indices |-> rle_delta_decoded.val]) IN
  IF ~IsOk(expanded_pixels) THEN Err(PaletteDecompressionFailed(expanded_pixels.err))
  ELSE Ok(expanded_pixels.val)

decompress(data) ==
  LET lzw_decompressed == lzw_decompression(data.data) IN
  IF lzw_decompressed = Panic THEN Panic
  ELSE IF ~IsOk(lzw_decompressed) THEN Err(LzwDecompressionFailed(lzw_decompressed.err))
  ELSE
  LET rle_delta_decoded == rle_delta_decompression(lzw_decompressed.val) IN
  IF rle_delta_decoded = Panic THEN Panic
  ELSE IF ~IsOk(rle_delta_decoded)
  THEN Err(RleDeltaDecompressionFailed(rle_delta_decoded.err))
  ELSE
  LET expanded_pixels == palette_decompression([palette |-> data.palette,
                                                indices |-> rle_delta_decoded.val]) IN
  IF ~IsOk(expanded_pixels) THEN Err(PaletteDecompressionFailed(expanded_pixels.err))
  ELSE Ok(expanded_pixels.val)

(***************************************************************************)
(* Container.                                                              *)
(***************************************************************************)
CompressionFailed(e) == [kind |-> "CompressionFailed", inner |-> e]
PaletteTooLarge == [kind |-> "PaletteTooLarge"]
InvalidHeader == [kind |-> "InvalidHeader"]
UnexpectedEofPaletteColor(i) == [kind |-> "UnexpectedEofPaletteColor", i |-> i]
InsufficientDataForPaletteSize == [kind |-> "InsufficientDataForPaletteSize"]
DimensionParsingFailed == [kind |-> "DimensionParsingFailed"]
DecompressionFailed(e) == [kind |-> "DecompressionFailed", inner |-> e]

\* b"PXC1"
MAGIC_HEADER == <<80, 88, 67, 49>>
MAGIC_SIZE == 4
WIDTH_HEIGHT_SIZE == 2
PALETTE_SIZE_SIZE == 1

\* to_be_bytes with the low byte first
to_be_bytes_swapped(v) == <<v % 256, v \div 256>>

to_be_bytes(v) == <<v \div 256, v % 256>>
from_be_bytes(b0, b1) == 256 * b0 + b1

\* `for color in &palette { encoded_data.extend_from_slice(color) }`
write_color(st, k) == [st EXCEPT !.encoded_data = @ \o st.palette[k]]
write_palette(encoded_data, palette) ==
  Iterate(write_color,
          [encoded_data |-> encoded_data, palette |-> palette, err |-> NoError],
          1, Len(palette)).encoded_data

\* the palette-length byte written to the file
palette_len_byte(palette) == U8(Len(palette))

\* encode with the palette check at 255 colours
encode_limit_255(width, height, rgba_data) ==
  LET header == MAGIC_HEADER \o to_be_bytes(width) \o to_be_bytes(height)
      compressed_data == compress(rgba_data)
  IN IF compressed_data = Panic THEN Panic
     ELSE IF ~IsOk(compressed_data) THEN Err(CompressionFailed(compressed_data.err))
     ELSE IF Len(compressed_data.val.palette) > 255 THEN Err(PaletteTooLarge)
     ELSE Ok(write_palette(Append(header, palette_len_byte(compressed_data.val.palette)),
                           compressed_data.val.palette)
             \o compressed_data.val.data)

encode(width, height, rgba_data) ==
  LET header == MAGIC_HEADER \o to_be_bytes(width) \o to_be_bytes(height)
      compressed_data == compress(rgba_data)
  IN IF compressed_data = Panic THEN Panic
     ELSE IF ~IsOk(compressed_data) THEN Err(CompressionFailed(compressed_data.err))
     ELSE IF Len(compressed_data.val.palette) > 256 THEN Err(PaletteTooLarge)
     ELSE Ok(write_palette(Append(header, palette_len_byte(compressed_data.val.palette)),
                           compressed_data.val.palette)
             \o compressed_data.val.data)

Image_new(width, height, palette_size, palette, rgba_data) ==
  [magic |-> MAGIC_HEADER, width |-> width, height |-> height,
   palette_size |-> palette_size, palette |-> palette, rgba_data |-> rgba_data]

\* read_color reporting the entries read so far plus one
read_color_counts_from_one(st, i) ==
  IF st.cursor + 4 > Len(st.encoded_data)
  THEN [st EXCEPT !.err = UnexpectedEofPaletteColor(i + 1)]
  ELSE [st EXCEPT !.palette = Append(@, SubSeq(st.encoded_data, st.cursor + 1, st.cursor + 4)),
                  !.cursor = @ + 4]

\* one iteration of `for i in 0..palette_size`
read_color(st, i) ==
  IF st.cursor + 4 > Len(st.encoded_data)
  THEN [st EXCEPT !.err = UnexpectedEofPaletteColor(i)]
  ELSE [st EXCEPT !.palette = Append(@, SubSeq(st.encoded_data, st.cursor + 1, st.cursor + 4)),
                  !.cursor = @ + 4]

read_palette(encoded_data, cursor, palette_size) ==
  Iterate(read_color,
          [encoded_data |-> encoded_data, cursor |-> cursor, palette |-> <<>>,
           err |-> NoError],
          0, palette_size - 1)

decode(encoded_data) ==
  IF Len(encoded_data) < MAGIC_SIZE \/ SubSeq(encoded_data, 1, MAGIC_SIZE) # MAGIC_HEADER
  THEN Err(InvalidHeader)
  ELSE
  LET c1 == MAGIC_SIZE
      c2 == c1 + WIDTH_HEIGHT_SIZE
      c3 == c2 + WIDTH_HEIGHT_SIZE
  IN \* encoded_data[cursor..cursor + 2] is out of range
     IF c2 > Len(encoded_data) \/ c3 > Len(encoded_data) THEN Panic
     ELSE
     LET width == from_be_bytes(encoded_data[c1 + 1], encoded_data[c1 + 2])
         height == from_be_bytes(encoded_data[c2 + 1], encoded_data[c2 + 2])
     IN IF c3 >= Len(encoded_data) THEN Err(InsufficientDataForPaletteSize)
        ELSE
        LET palette_size == encoded_data[c3 + 1]
            read == read_palette(encoded_data, c3 + PALETTE_SIZE_SIZE, palette_size)
        IN IF read.err # NoError THEN Err(read.err)
           ELSE
           LET compressed_data == SubSeq(encoded_data, read.cursor + 1, Len(encoded_data))
               rgba_data == decompress([palette |-> read.palette, data |-> compressed_data])
           IN IF rgba_data = Panic THEN Panic
              ELSE IF ~IsOk(rgba_data) THEN Err(DecompressionFailed(rgba_data.err))
              ELSE Ok(Image_new(width, height, U8(palette_size), read.palette,
                                rgba_data.val))

(***************************************************************************)
(* The editor's palette (pxc-editor).                                      *)
(***************************************************************************)
\* Color32 values the editor uses
WHITE == "WHITE"
BLACK == "BLACK"

\* the largest number of colours add_color lets the palette have
PALETTE_MAX == 256

Palette_new == [colors |-> <<WHITE>>, current_color |-> 0]

get_palette_length(self) == Len(self.colors)

add_color(self, color) ==
  IF Len(self.colors) < PALETTE_MAX THEN [self EXCEPT !.colors = Append(@, color)]
  ELSE self

\* Vec::remove(index): panics when index >= len
vec_remove_panics(v, index) == index >= Len(v)
vec_remove(v, index) == SubSeq(v, 1, index) \o SubSeq(v, index + 2, Len(v))

remove_color_panics(self) ==
  Len(self.colors) > 1 /\ vec_remove_panics(self.colors, self.current_color)
remove_color(self) ==
  IF Len(self.colors) > 1
  THEN [self EXCEPT !.colors = vec_remove(@, self.current_color)]
  ELSE self

get_color(self, index) ==
  IF index >= Len(self.colors) THEN None ELSE Some(self.colors[index + 1])

\* get_color(current_color).unwrap(): panics on None
get_current_color_panics(self) == get_color(self, self.current_color) = None

set_color(self, index, color) ==
  IF index >= Len(self.colors) THEN self
  ELSE [self EXCEPT !.colors[index + 1] = color]

set_current_color(self, color) == set_color(self, self.current_color, color)

switch_color(self, index) ==
  IF index >= Len(self.colors) THEN self
  ELSE [self EXCEPT !.current_color = index]

(***************************************************************************)
(* The inputs the client passes.                                           *)
(***************************************************************************)
SeqsUpTo(S, n) == UNION {[1..k -> S] : k \in 0..n}

Alphabet == {0, 1, 255}
ShortBytes == SeqsUpTo(Alphabet, MaxLen)

\* n bytes starting at b with the constant step d (mod 256)
Ramp(b, d, n) == [k \in 1..n |-> (b + (k - 1) * d) % 256]
LongBytes ==
  {Ramp(b, d, n) \o t : b \in {0, 255}, d \in {0, 1, 255},
                        n \in (MaxRun - 2)..MaxRun, t \in {<<>>, <<7>>}}
\* runs of equal bytes long enough for more than one chunk of 255
LongRuns == {Ramp(b, 0, 2 * MaxRun) \o t : b \in {0, 255}, t \in {<<>>, <<7>>}}
ByteInputs == ShortBytes \cup LongBytes \cup LongRuns

\* RLE-delta streams of three pairs handed to rle_delta_decompression: pairs
\* with count 0, a step down, a wrapping run of 255 steps and a run of equal bytes
RlePairs == {<<0, 1>>, <<2, 255>>, <<255, 1>>, <<3, 0>>}
RleStreams == {<<b>> \o p \o q \o r : b \in {0, 255}, p \in RlePairs, q \in RlePairs, r \in RlePairs}

\* code streams handed to lzw_decompression: known codes, the next code to be
\* added (256, 257, ...) and codes past it, with and without a dangling byte
Codes == {0, 255, 256, 257, 258}
CodeBytes(cs) == [j \in 1..(2 * Len(cs)) |-> to_le_bytes(cs[((j - 1) \div 2) + 1])[((j - 1) % 2) + 1]]
LzwStreams == {CodeBytes(cs) : cs \in SeqsUpTo(Codes, MaxCodes)}
LzwInputs == ShortBytes \cup LzwStreams \cup {s \o <<1>> : s \in LzwStreams}

\* a byte sequence in which no pair of neighbouring bytes occurs twice: for
\* a = 0..254 the block a, a, a+1, a, a+2, a, ..., 254, a, 255, and a last 255
PairBlock(a) == [j \in 1..(511 - 2 * a) |->
                   IF j % 2 = 1 /\ j > 1 THEN a + ((j - 1) \div 2) ELSE a]
RECURSIVE PairBlocks(_, _)
PairBlocks(lo, hi) ==
  IF lo = hi THEN SubSeq(PairBlock(lo), 1, 511 - 2 * lo)
  ELSE LET mid == (lo + hi) \div 2
       IN PairBlocks(lo, mid) \o PairBlocks(mid + 1, hi)
PairWalk == PairBlocks(0, 254) \o <<255>>

\* inputs on which lzw_compression fills its dictionary, described by their
\* length: with every pair new, each byte after the first adds an entry, so
\* LZW_LIMIT - 255 bytes add the last entry there is room for and one more byte
\* asks for another
SaturatingBytes == {[walk |-> n] : n \in {LZW_LIMIT - 255, LZW_LIMIT - 254}}
WalkBytes(d) == SubSeq(PairWalk, 1, d.walk)

\* streams on which lzw_decompression fills its dictionary, described by the
\* number of codes 0 and the code that follows them: every code after the first
\* adds an entry, and the last code is 0 or the next code to be added
SaturatingStreams ==
  {[zeros |-> LZW_LIMIT - 256, last |-> 0],
   [zeros |-> LZW_LIMIT - 256, last |-> LZW_LIMIT - 1],
   [zeros |-> LZW_LIMIT - 255, last |-> 0],
   [zeros |-> LZW_LIMIT - 255, last |-> LZW_LIMIT]}
ZeroStream(d) == SubSeq([j \in 1..(2 * d.zeros) |-> 0], 1, 2 * d.zeros) \o to_le_bytes(d.last)

\* red, green, blue
Colours == {<<255, 0, 0, 255>>, <<0, 255, 0, 255>>, <<0, 0, 255, 255>>}
Flatten(cs) == [j \in 1..(4 * Len(cs)) |-> cs[((j - 1) \div 4) + 1][((j - 1) % 4) + 1]]
ShortImages == {Flatten(cs) : cs \in SeqsUpTo(Colours, MaxPixels)}

\* the i-th colour of the grayscale gradient; alpha steps after 256 colours
GradientColour(i) == <<i % 256, i % 256, i % 256, 255 - (i \div 256)>>
GradientPalette(n) == [i \in 1..n |-> GradientColour(i - 1)]
Gradient(n) == Flatten(GradientPalette(n))
\* a gradient of n colours followed by the start of the same row again
GradientImages ==
  {Gradient(n) \o Gradient(k) : n \in (MaxColours - 2)..MaxColours, k \in 0..2}
Images == ShortImages \cup GradientImages

\* buffers handed to palette_compression: images, and lengths that are no image
PixelInputs == Images \cup {b \in ShortBytes : Len(b) % 4 # 0 /\ Len(b) <= 3}

\* palettes with index streams that may point outside them
PaletteInputs ==
  {[palette |-> p, indices |-> i] :
     p \in SeqsUpTo(Colours, 2) \cup {GradientPalette(256)},
     i \in SeqsUpTo(Alphabet, MaxLen - 1)}

\* values handed to decompress: no palette, one colour, two or 256, with the
\* streams handed to lzw_decompression as data
DecompressPalettes ==
  {<<>>, <<<<255, 0, 0, 255>>>>, <<<<255, 0, 0, 255>>, <<0, 255, 0, 255>>>>,
   GradientPalette(256)}
DecompressInputs == {[palette |-> p, data |-> d] : p \in DecompressPalettes, d \in LzwInputs}

\* files handed to decode: what encode wrote for two small images, cut after
\* every number of bytes, the same with a foreign magic byte, and short byte
\* sequences
Containers ==
  {encode(258, 16, Flatten(<<<<255, 0, 0, 255>>, <<255, 0, 0, 255>>,
                             <<0, 255, 0, 255>>, <<0, 0, 255, 255>>>>)).val,
   encode(16, 258, Flatten(<<<<0, 0, 255, 255>>, <<0, 0, 255, 255>>>>)).val}
Truncated == {SubSeq(e, 1, k) : e \in Containers, k \in 0..16}
Foreign == {[e EXCEPT ![4] = 50] : e \in {t \in Truncated : Len(t) >= 4}}
DecodeInputs == ShortBytes \cup Truncated \cup Containers \cup Foreign

Dims == {16, 258, 65535}

(***************************************************************************)
(* The client.                                                             *)
(***************************************************************************)
NoCall == [op |-> "none"]
Idle == [fn |-> "idle"]
\* lzw holds, when the last call was an LZW call, what it returned and what its
\* locals were then: next_code, the number of dictionary entries and the largest
\* code an entry has
NoLzw == [fn |-> "none"]
BucketCodes(bucket) == {bucket[key] : key \in DOMAIN bucket}
Largest(S) == CHOOSE c \in S : \A d \in S : d <= c
RECURSIVE Sum(_, _, _)
Sum(f(_), lo, hi) ==
  IF lo > hi THEN 0
  ELSE IF lo = hi THEN f(lo)
  ELSE Sum(f, lo, (lo + hi) \div 2) + Sum(f, ((lo + hi) \div 2) + 1, hi)
lzw_comp_locals(st) ==
  LET size(b) == Cardinality(DOMAIN st.dictionary[b])
  IN [ret |-> lzw_comp_return(st), next_code |-> st.next_code,
      entries |-> Sum(size, 0, 255),
      last_code |-> Largest({Largest(BucketCodes(st.dictionary[b])) : b \in 0..255}),
      brief |-> FALSE]
\* the code at which the walk of get_string stops
RECURSIVE get_string_root(_, _)
get_string_root(dictionary, code) ==
  IF code >= Len(dictionary) THEN code
  ELSE LET entry == dictionary[code + 1] IN
       IF entry.prefix.some THEN get_string_root(dictionary, entry.prefix.v) ELSE code
\* the number of entries from code 256 on whose prefix is a smaller code
lzw_ordered(dictionary) ==
  Cardinality({c \in 256..(Len(dictionary) - 1) :
                 /\ dictionary[c + 1].prefix.some
                 /\ dictionary[c + 1].prefix.v < c})
\* the number of codes that get_string expands to a non-empty string, stopping
\* at one of the 256 entries without prefix
lzw_expanding(dictionary) ==
  Cardinality({c \in 0..(Len(dictionary) - 1) :
                 /\ get_string(dictionary, c) # <<>>
                 /\ get_string_root(dictionary, c) < 256
                 /\ ~dictionary[get_string_root(dictionary, c) + 1].prefix.some})

lzw_decomp_locals(st) ==
  [ret |-> lzw_decomp_return(st), next_code |-> st.next_code,
   entries |-> Len(st.dictionary), last_code |-> Len(st.dictionary) - 1,
   previous_code |-> st.previous_code, previous_string |-> st.previous_string,
   previous_entry |-> get_string(st.dictionary, st.previous_code),
   ordered |-> lzw_ordered(st.dictionary), expanding |-> lzw_expanding(st.dictionary),
   brief |-> FALSE]

\* After lzw_decompression of a stream lzw_compression returned: the decoder's
\* locals, the number of entries the encoder had, and the number of codes from
\* 256 on whose decoder entry expands to the string the encoder gave that code
lzw_lockstep(enc, dec) ==
  Cardinality({c \in 256..(Len(dec.dictionary) - 1) :
                 LET str == get_string(dec.dictionary, c)
                 IN contains_key(enc.dictionary, str) /\ get(enc.dictionary, str) = c})
lzw_chained_locals(enc, dec) ==
  [ret |-> lzw_decomp_return(dec), next_code |-> dec.next_code,
   entries |-> Len(dec.dictionary), last_code |-> Len(dec.dictionary) - 1,
   previous_code |-> dec.previous_code, previous_string |-> dec.previous_string,
   previous_entry |-> get_string(dec.dictionary, dec.previous_code),
   ordered |-> lzw_ordered(dec.dictionary), expanding |-> lzw_expanding(dec.dictionary),
   encoder_entries |-> enc.next_code, agreeing |-> lzw_lockstep(enc, dec),
   brief |-> FALSE]

\* A call on an input that fills the dictionary is kept in brief: the input by
\* its description, a returned value by its length and the largest 16-bit
\* code in it.
RECURSIVE MaxCode(_, _, _)
MaxCode(x, lo, hi) ==
  IF lo > hi THEN 0
  ELSE IF lo = hi THEN from_le_bytes(x[2 * lo + 1], x[2 * lo + 2])
  ELSE LET mid == (lo + hi) \div 2
           l == MaxCode(x, lo, mid)
           r == MaxCode(x, mid + 1, hi)
       IN IF l >= r THEN l ELSE r
Brief(r) ==
  IF IsOk(r)
  THEN [tag |-> "Ok", len |-> Len(r.val),
        max_code |-> MaxCode(r.val, 0, (Len(r.val) \div 2) - 1)]
  ELSE r
InBrief(locals) == [locals EXCEPT !.ret = Brief(@), !.brief = TRUE]
ThisCall == [op |-> op, input |-> input, output |-> output]

Init ==
  /\ op = "none"
  /\ input = <<>>
  /\ output = Panic
  /\ prev = NoCall
  /\ run = Idle
  /\ lzw = NoLzw
  /\ editor = [palette |-> Palette_new, panicked |-> FALSE]

\* a call on a fresh input; l is what the call leaves in lzw, and r may read it
FreshLzw(f, x, r, l) ==
  /\ op = "none"
  /\ run = Idle
  /\ op' = f
  /\ input' = x
  /\ lzw' = l
  /\ output' = r
  /\ prev' = NoCall
  /\ run' = Idle
  /\ UNCHANGED editor

\* a call on a fresh input
Fresh(f, x, r) == FreshLzw(f, x, r, NoLzw)

\* a call on the value the previous call f0 returned
ChainedLzw(f0, f, r, l) ==
  /\ op = f0
  /\ prev = NoCall
  /\ IsOk(output)
  /\ op' = f
  /\ input' = output.val
  /\ lzw' = l
  /\ output' = r
  /\ prev' = ThisCall
  /\ run' = Idle
  /\ UNCHANGED editor

Chained(f0, f, r) == ChainedLzw(f0, f, r, NoLzw)

\* palette_compression, entered: the length check and the locals
palette_compression_begin ==
  /\ op = "none"
  /\ run = Idle
  /\ \E pixels \in PixelInputs :
       IF Len(pixels) % 4 # 0
       THEN /\ op' = "palette_compression"
            /\ input' = pixels
            /\ output' = palette_compression(pixels)
            /\ run' = Idle
       ELSE /\ run' = [fn |-> "palette_compression", st |-> palette_init(pixels)]
            /\ UNCHANGED <<op, input, output>>
  /\ prev' = NoCall
  /\ UNCHANGED <<lzw, editor>>

\* palette_compression, one loop iteration
palette_compression_iter ==
  /\ run # Idle
  /\ op = "none"
  /\ ~palette_done(run.st)
  /\ run' = [run EXCEPT !.st = palette_step(run.st, chunk4(run.st.pixels, run.st.i + 1))]
  /\ UNCHANGED <<op, input, output, prev, lzw, editor>>

\* palette_compression, returning
palette_compression_return ==
  /\ run # Idle
  /\ op = "none"
  /\ palette_done(run.st)
  /\ op' = "palette_compression"
  /\ input' = run.st.pixels
  /\ output' = palette_result(run.st)
  /\ UNCHANGED <<prev, run, lzw, editor>>

palette_decompression_call ==
  \/ \E c \in PaletteInputs : Fresh("palette_decompression", c, palette_decompression(c))
  \/ Chained("palette_compression", "palette_decompression", palette_decompression(output.val))

rle_delta_compression_call ==
  \E data \in ByteInputs : Fresh("rle_delta_compression", data, rle_delta_compression(data))

rle_delta_decompression_call ==
  \/ \E data \in ShortBytes \cup RleStreams :
       Fresh("rle_delta_decompression", data, rle_delta_decompression(data))
  \/ Chained("rle_delta_compression", "rle_delta_decompression",
             rle_delta_decompression(output.val))

lzw_compression_call ==
  \E data \in ByteInputs :
     FreshLzw("lzw_compression", data, lzw'.ret, lzw_comp_locals(lzw_comp_end(data)))

lzw_decompression_call ==
  \/ \E data \in LzwInputs :
        FreshLzw("lzw_decompression", data, lzw'.ret,
                 lzw_decomp_locals(lzw_decomp_end(data)))
  \/ /\ op = "lzw_compression"
     /\ ~lzw.brief
     /\ ChainedLzw("lzw_compression", "lzw_decompression", lzw'.ret,
                   lzw_chained_locals(lzw_comp_end(input), lzw_decomp_end(output.val)))

compress_call ==
  \E data \in PixelInputs : Fresh("compress", data, compress(data))

decompress_call ==
  \/ \E data \in DecompressInputs : Fresh("decompress", data, decompress(data))
  \/ Chained("compress", "decompress", decompress(output.val))

encode_call ==
  \E width \in Dims, height \in Dims, rgba_data \in Images :
     Fresh("encode", [width |-> width, height |-> height, rgba_data |-> rgba_data],
           encode(width, height, rgba_data))

decode_call ==
  \/ \E encoded_data \in DecodeInputs : Fresh("decode", encoded_data, decode(encoded_data))
  \/ Chained("encode", "decode", decode(output.val))

\* the client drops the values it holds
Drop ==
  /\ op # "none"
  /\ op' = "none"
  /\ input' = <<>>
  /\ output' = Panic
  /\ prev' = NoCall
  /\ run' = Idle
  /\ lzw' = NoLzw
  /\ UNCHANGED editor

Next ==
  \/ palette_compression_begin
  \/ palette_compression_iter
  \/ palette_compression_return
  \/ palette_decompression_call
  \/ rle_delta_compression_call
  \/ rle_delta_decompression_call
  \/ lzw_compression_call
  \/ lzw_decompression_call
  \/ compress_call
  \/ decompress_call
  \/ encode_call
  \/ decode_call
  \/ Drop

Spec == Init /\ [][Next]_vars

\* the client of the LZW stage alone, which also hands it the inputs that fill
\* the dictionary
lzw_compression_limit_call ==
  \E d \in SaturatingBytes :
     FreshLzw("lzw_compression", d, lzw'.ret,
              InBrief(lzw_comp_locals(lzw_comp_end(WalkBytes(d)))))

lzw_decompression_limit_call ==
  \E d \in SaturatingStreams :
     FreshLzw("lzw_decompression", d, lzw'.ret,
              InBrief(lzw_decomp_locals(lzw_decomp_end(ZeroStream(d)))))

\* lzw_decompression of the stream lzw_compression returned for an input that
\* fills the dictionary; the stream is the one the brief output stands for
lzw_round_trip_limit_call ==
  /\ op = "lzw_compression"
  /\ lzw.brief
  /\ prev = NoCall
  /\ IsOk(output)
  /\ op' = "lzw_decompression"
  /\ input' = [stream_of |-> input]
  /\ lzw' = LET enc == lzw_comp_end(WalkBytes(input))
            IN InBrief(lzw_chained_locals(enc, lzw_decomp_end(lzw_comp_return(enc).val)))
  /\ output' = lzw'.ret
  /\ prev' = ThisCall
  /\ run' = Idle
  /\ UNCHANGED editor

\* the editor's user: the indexes picked, and the calls on the palette.  New
\* colours are white (as the editor adds them); a colour is changed to black
\* only at the low indexes.  A panic ends the program.
EditorIndexes == (0..MaxEditorIndex) \cup {PALETTE_MAX - 1, PALETTE_MAX}
EditorCall(palette) ==
  /\ ~editor.panicked
  /\ editor' = [editor EXCEPT !.palette = palette]
  /\ UNCHANGED <<op, input, output, prev, run, lzw>>
EditorPanic ==
  /\ editor' = [editor EXCEPT !.panicked = TRUE]
  /\ UNCHANGED <<op, input, output, prev, run, lzw>>

add_color_call == EditorCall(add_color(editor.palette, WHITE))

remove_color_call ==
  /\ ~editor.panicked
  /\ IF remove_color_panics(editor.palette) THEN EditorPanic
     ELSE EditorCall(remove_color(editor.palette))

switch_color_call ==
  \E index \in EditorIndexes : EditorCall(switch_color(editor.palette, index))

set_color_call ==
  \E index \in 0..MaxEditorIndex, color \in {WHITE, BLACK} :
     EditorCall(set_color(editor.palette, index, color))

set_current_color_call ==
  \E color \in {WHITE, BLACK} :
     /\ color = BLACK => editor.palette.current_color <= MaxEditorIndex
     /\ EditorCall(set_current_color(editor.palette, color))

get_current_color_call ==
  /\ ~editor.panicked
  /\ IF get_current_color_panics(editor.palette) THEN EditorPanic
     ELSE EditorCall(editor.palette)

NextEditor ==
  \/ add_color_call
  \/ remove_color_call
  \/ switch_color_call
  \/ set_color_call
  \/ set_current_color_call
  \/ get_current_color_call

SpecEditor == Init /\ [][NextEditor]_vars

NextLimit ==
  \/ lzw_compression_call
  \/ lzw_decompression_call
  \/ lzw_compression_limit_call
  \/ lzw_decompression_limit_call
  \/ lzw_round_trip_limit_call
  \/ Drop

SpecLimit == Init /\ [][NextLimit]_vars

(***************************************************************************)
(* Vocabulary of the properties.                                           *)
(***************************************************************************)
NumPixels(x) == Len(x) \div 4
ColoursOf(x) == {chunk4(x, k) : k \in 1..NumPixels(x)}
IsRgba(x) == Len(x) % 4 = 0
AtMost256Colours(x) == IsRgba(x) /\ Cardinality(ColoursOf(x)) <= 256

\* the call just made is f on a fresh input
Called(f) == op = f /\ prev = NoCall
\* the call just made is g on the value that f returned before it
RoundTrip(f, g) == op = g /\ prev # NoCall /\ prev.op = f

RRGB == Flatten(<<<<255, 0, 0, 255>>, <<255, 0, 0, 255>>, <<0, 255, 0, 255>>, <<0, 0, 255, 255>>>>)

(***************************************************************************)
(* C1..C10                                                                 *)
(***************************************************************************)

\* C1: every RGBA buffer (length a multiple of 4, any pixel count) with at most
\* 256 distinct colours is compressed successfully, and decompress of the result
\* returns exactly the buffer.
C1_CompressRoundTrip ==
  /\ (Called("compress") /\ AtMost256Colours(input)) => IsOk(output)
  /\ RoundTrip("compress", "decompress") => output = Ok(prev.input)

\* C2: for every width, height and RGBA buffer with at most 256 distinct
\* colours, encode succeeds and decode of its output succeeds with the same
\* width, height and pixels.
C2_EncodeRoundTrip ==
  /\ (Called("encode") /\ AtMost256Colours(input.rgba_data)) => IsOk(output)
  /\ RoundTrip("encode", "decode") =>
       /\ IsOk(output)
       /\ output.val.width = prev.input.width
       /\ output.val.height = prev.input.height
       /\ output.val.rgba_data = prev.input.rgba_data

\* C3: for every palette size encode accepts (1..256 colours), decode returns
\* the palette that compress produced, entry by entry, and decompresses the
\* bytes that follow the last palette entry.
C3_PaletteSurvives ==
  RoundTrip("encode", "decode") =>
    LET c == compress(prev.input.rgba_data).val
        n == Len(c.palette)
    IN /\ IsOk(output)
       /\ Len(output.val.palette) = n
       /\ output.val.palette = c.palette
       /\ SubSeq(input, 9 + 4 * n + 1, Len(input)) = c.data

\* C4: for every byte sequence of length >= 2, rle_delta_compression succeeds
\* and rle_delta_decompression of its output is the sequence, wrapping
\* differences included.
C4_RleRoundTrip ==
  /\ (Called("rle_delta_compression") /\ Len(input) >= 2) => IsOk(output)
  /\ RoundTrip("rle_delta_compression", "rle_delta_decompression") =>
       output = Ok(prev.input)

C6_PaletteRoundTrip ==
  /\ RoundTrip("palette_compression", "palette_decompression") => output = Ok(prev.input)
  /\ (Called("palette_compression") /\ input = <<>>) =>
       output = Ok([palette |-> <<>>, indices |-> <<>>])

\* a buffer in which a colour repeats was restored from palette and indices
C6_Witness ==
  /\ RoundTrip("palette_compression", "palette_decompression")
  /\ Len(input.palette) >= 2
  /\ Len(input.palette) < Len(input.indices)
  /\ output = Ok(prev.input)

\* the pixel (from 1) at which the 257th distinct colour appears
OverflowPixel(x) ==
  CHOOSE k \in 1..NumPixels(x) :
    /\ Cardinality({chunk4(x, j) : j \in 1..(k - 1)}) = 256
    /\ chunk4(x, k) \notin {chunk4(x, j) : j \in 1..(k - 1)}

\* C7: while palette_compression runs the palette never holds more than 256
\* entries; a buffer with exactly 256 distinct colours succeeds; a buffer with a
\* 257th distinct colour returns PaletteOverflow, at that pixel, and no result.
C7_PaletteBound ==
  /\ run # Idle => Len(run.st.palette) <= 256
  /\ (Called("palette_compression") /\ IsRgba(input)) =>
       IF Cardinality(ColoursOf(input)) <= 256
       THEN IsOk(output)
       ELSE /\ IsErr(output)
            /\ output.err.kind = "PaletteOverflow"
            /\ run.st.i + 1 = OverflowPixel(input)

\* the call returned PaletteOverflow with 256 colours in the palette
C7_Witness ==
  /\ Called("palette_compression")
  /\ IsErr(output)
  /\ output.err.kind = "PaletteOverflow"
  /\ Len(run.st.palette) = 256

\* the first pixel (from 1) of x that has the colour c
FirstPixel(x, c) ==
  CHOOSE k \in 1..NumPixels(x) :
    chunk4(x, k) = c /\ \A j \in 1..(k - 1) : chunk4(x, j) # c

\* C8: on success the palette entries are pairwise distinct and in order of
\* first occurrence, and there is one index per pixel, the position of the
\* pixel's colour in the palette; red, red, green, blue gives 0, 0, 1, 2.
C8_PaletteOrder ==
  (Called("palette_compression") /\ IsOk(output)) =>
    LET P == output.val.palette
        I == output.val.indices
    IN /\ \A a, b \in 1..Len(P) : a # b => P[a] # P[b]
       /\ {P[a] : a \in 1..Len(P)} = ColoursOf(input)
       /\ \A a \in 1..(Len(P) - 1) : FirstPixel(input, P[a]) < FirstPixel(input, P[a + 1])
       /\ Len(I) = NumPixels(input)
       /\ \A k \in 1..Len(I) : I[k] < Len(P) /\ P[I[k] + 1] = chunk4(input, k)
       /\ input = RRGB => I = <<0, 0, 1, 2>>

\* red, red, green, blue was compressed
C8_Witness ==
  /\ Called("palette_compression")
  /\ input = RRGB
  /\ IsOk(output)
  /\ Len(output.val.palette) = 3

\* C9: palette_decompression returns InvalidPaletteIndex(index, palette_size)
\* for the first index >= palette.len() and nothing else; without such an index
\* it returns the 4 bytes of palette[index] for each index, in order.
C9_PaletteDecode ==
  op = "palette_decompression" =>
    LET P == input.palette
        I == input.indices
        bad == {k \in 1..Len(I) : I[k] >= Len(P)}
    IN IF bad = {}
       THEN /\ IsOk(output)
            /\ Len(output.val) = 4 * Len(I)
            /\ \A k \in 1..Len(I) : chunk4(output.val, k) = P[I[k] + 1]
       ELSE LET first == CHOOSE k \in bad : \A j \in bad : k <= j
            IN output = Err(InvalidPaletteIndex(I[first], Len(P)))

\* valid indices were followed by two invalid ones, and the first is reported
C9_Witness ==
  /\ Called("palette_decompression")
  /\ Len(input.palette) = 1
  /\ input.indices = <<0, 1, 255>>
  /\ output = Err(InvalidPaletteIndex(1, 1))

\* C10: every successful output of rle_delta_compression has odd length >= 3
\* and every count byte is in 1..255.
C10_RleWellFormed ==
  (op = "rle_delta_compression" /\ IsOk(output)) =>
    /\ Len(output.val) % 2 = 1
    /\ Len(output.val) >= 3
    /\ \A k \in 1..((Len(output.val) - 1) \div 2) :
         output.val[2 * k] >= 1 /\ output.val[2 * k] <= 255

(***************************************************************************)
(* C11..C20                                                                *)
(***************************************************************************)

\* C11: rle_delta_compression of the empty sequence returns EmptyInput;
\* rle_delta_decompression returns EmptyInput on length 0, InvalidInputLength(n)
\* on every length n that is 1, 2 or even, and a value on every odd length >= 3.
C11_RleLengths ==
  /\ (op = "rle_delta_compression" /\ input = <<>>) => output = Err(EmptyInput)
  /\ op = "rle_delta_decompression" =>
       LET n == Len(input) IN
       IF n = 0 THEN output = Err(EmptyInput)
       ELSE IF n \in {1, 2} \/ n % 2 = 0
            THEN output = Err([kind |-> "InvalidInputLength", n |-> n])
            ELSE IsOk(output)

\* a stream of one byte, which is odd but too short, was rejected with its length
C11_Witness ==
  /\ Called("rle_delta_decompression")
  /\ Len(input) = 1
  /\ IsErr(output)
  /\ output.err.kind = "InvalidInputLength"

\* C12: compress of a one-pixel buffer (4 bytes) returns a value or a
\* CompressionError; it does not read data[1] of a one-byte index stream.
C12_OnePixelCompress ==
  (op = "compress" /\ Len(input) = 4) => (IsOk(output) \/ IsErr(output))

\* C13: lzw_decompression of an odd-length input whose complete 16-bit codes are
\* all accepted returns IncompleteCode with the offset of the dangling last
\* byte, len - 1; a one-byte input returns IncompleteCode at position 0.
C13_LzwIncomplete ==
  (/\ op = "lzw_decompression"
   /\ Len(input) % 2 = 1
   /\ IsOk(lzw_decompression(SubSeq(input, 1, Len(input) - 1)))) =>
    /\ output = Err([kind |-> "IncompleteCode", position |-> Len(input) - 1])
    /\ Len(input) = 1 => output.err.position = 0

\* two codes were accepted and the fifth byte was reported as dangling
C13_Witness ==
  /\ Called("lzw_decompression")
  /\ Len(input) = 5
  /\ IsErr(output)
  /\ output.err.kind = "IncompleteCode"
  /\ output.err.position = 4

\* the j-th 16-bit code (from 0) of the stream x
LzwCode(x, j) == x[2 * j + 1] + 256 * x[2 * j + 2]

\* C14: lzw_decompression returns InvalidCode{code, dict_size: 256} for a first
\* code >= 256, and InvalidCode{code, dict_size} for the first later code that
\* is greater than the number of entries defined when it is read; codes below
\* the dictionary size or equal to it are the only ones expanded.
C14_LzwInvalidCode ==
  (op = "lzw_decompression" /\ Len(input) >= 2) =>
    LET size(j) == IF j = 0 THEN 256 ELSE 255 + j
        undefined(j) == IF j = 0 THEN LzwCode(input, j) >= 256
                        ELSE LzwCode(input, j) > size(j)
        bad == {j \in 0..((Len(input) \div 2) - 1) : undefined(j)}
    IN /\ bad # {} =>
            LET j == CHOOSE k \in bad : \A l \in bad : k <= l
            IN /\ IsErr(output)
               /\ output.err.kind = "InvalidCode"
               /\ output.err.code = LzwCode(input, j)
               /\ output.err.dict_size = size(j)
       /\ IsOk(output) => bad = {}

\* after a known code and the special case, a code past the 257 entries defined
\* was rejected
C14_Witness ==
  /\ Called("lzw_decompression")
  /\ Len(input) = 6
  /\ IsErr(output)
  /\ output.err.kind = "InvalidCode"
  /\ output.err.code = 258
  /\ output.err.dict_size = 257

\* the codes of the stream x
StreamCodes(x) == {LzwCode(x, j) : j \in 0..((Len(x) \div 2) - 1)}

\* C15: in lzw_compression and lzw_decompression next_code never exceeds 65535,
\* no dictionary entry gets a code above 65534, the encoder never emits 65535,
\* and a call that has to add an entry when next_code is 65535 returns
\* DictionaryOverflow.  next_code and the dictionary only grow, so they are
\* read when the call returns.
C15_LzwLimit ==
  /\ op \in {"lzw_compression", "lzw_decompression"} =>
       /\ lzw.next_code <= 65535
       /\ lzw.last_code <= 65534
       /\ lzw.entries = lzw.next_code
       /\ (IsErr(output) /\ output.err.kind = "DictionaryOverflow") => lzw.next_code = 65535
  /\ op = "lzw_compression" =>
       /\ IsErr(output) => output.err.kind = "DictionaryOverflow"
       /\ IsOk(output) =>
            IF lzw.brief THEN output.max_code <= 65534
            ELSE 65535 \notin StreamCodes(output.val)
       /\ lzw.brief =>
            IF input.walk - 1 > 65535 - 256
            THEN IsErr(output) /\ lzw.last_code = 65534
            ELSE IsOk(output) /\ lzw.next_code = 65535 /\ output.len = 2 * input.walk
  /\ (Called("lzw_decompression") /\ lzw.brief) =>
       IF input.zeros + 1 <= 65535 - 255
       THEN IsOk(output) /\ lzw.next_code = 65535 /\ lzw.last_code = 65534
       ELSE /\ IsErr(output)
            /\ lzw.next_code = 65535
            /\ lzw.last_code = 65534
            /\ output.err.kind = IF input.last = 65535 THEN "InvalidCode"
                                 ELSE "DictionaryOverflow"

\* the encoder filled its dictionary up to code 65534 and refused the next entry
C15_Witness ==
  /\ Called("lzw_compression")
  /\ IsErr(output)
  /\ output.err.kind = "DictionaryOverflow"
  /\ lzw.next_code = 65535
  /\ lzw.last_code = 65534

\* C16: every successful output of lzw_compression has even length, is empty
\* exactly when the input is empty, and for a non-empty input starts with the
\* little-endian code of the first input byte, a code below 256.
C16_LzwStream ==
  (op = "lzw_compression" /\ IsOk(output)) =>
    /\ Len(output.val) % 2 = 0
    /\ output.val = <<>> <=> input = <<>>
    /\ input # <<>> =>
         /\ LzwCode(output.val, 0) < 256
         /\ LzwCode(output.val, 0) = input[1]

\* a sequence starting with 255 was compressed to more than one code
C16_Witness ==
  /\ Called("lzw_compression")
  /\ IsOk(output)
  /\ Len(input) >= 2
  /\ input[1] = 255
  /\ Len(output.val) >= 4
  /\ LzwCode(output.val, 0) = 255

\* the file x starts with the magic 'PXC1'
HasMagic(x) == Len(x) >= 4 /\ SubSeq(x, 1, 4) = <<80, 88, 67, 49>>

\* C17: on success encode(w, h, x) returns the magic 'PXC1', w and h as
\* big-endian u16, one palette-length byte, the palette entries of compress(x)
\* in order and the LZW bytes of compress(x): 9 + 4 * palette.len() + data.len()
\* bytes.  The palette-length byte holds the low 8 bits of the length.
C17_EncodeLayout ==
  (op = "encode" /\ IsOk(output)) =>
    LET c == compress(input.rgba_data).val
        n == Len(c.palette)
        out == output.val
    IN /\ Len(out) = 9 + 4 * n + Len(c.data)
       /\ SubSeq(out, 1, 4) = <<80, 88, 67, 49>>
       /\ out[5] * 256 + out[6] = input.width
       /\ out[7] * 256 + out[8] = input.height
       /\ out[9] = n % 256
       /\ \A k \in 1..n : SubSeq(out, 9 + 4 * (k - 1) + 1, 9 + 4 * k) = c.palette[k]
       /\ SubSeq(out, 9 + 4 * n + 1, Len(out)) = c.data

\* an image of three colours was written with width 258 and height 16
C17_Witness ==
  /\ Called("encode")
  /\ IsOk(output)
  /\ input.width = 258
  /\ input.height = 16
  /\ SubSeq(output.val, 5, 9) = <<1, 2, 0, 16, 3>>

\* C18: decode returns InvalidHeader for an input shorter than 4 bytes or not
\* starting with 'PXC1', InsufficientDataForPaletteSize for the magic followed
\* by the dimensions and nothing else (8 bytes), and
\* UnexpectedEofPaletteColor(i) when fewer than 4 * P bytes follow the
\* palette-length byte P, with i the index of the first incomplete entry.
C18_DecodeTruncated ==
  op = "decode" =>
    LET n == Len(input) IN
    /\ ~HasMagic(input) => output = Err([kind |-> "InvalidHeader"])
    /\ (HasMagic(input) /\ n = 8) =>
         output = Err([kind |-> "InsufficientDataForPaletteSize"])
    /\ (HasMagic(input) /\ n >= 9 /\ n - 9 < 4 * input[9]) =>
         output = Err([kind |-> "UnexpectedEofPaletteColor", i |-> (n - 9) \div 4])

\* a file was cut inside its second palette entry
C18_Witness ==
  /\ Called("decode")
  /\ HasMagic(input)
  /\ Len(input) = 15
  /\ input[9] = 3
  /\ IsErr(output)
  /\ output.err.kind = "UnexpectedEofPaletteColor"
  /\ output.err.i = 1

\* C19: decode of an input that starts with 'PXC1' and is shorter than 8 bytes
\* returns DimensionParsingFailed.
C19_DecodeDimensions ==
  (op = "decode" /\ HasMagic(input) /\ Len(input) < 8) =>
    output = Err([kind |-> "DimensionParsingFailed"])

\* C20: every image a successful decode returns has
\* rgba_data.len() = 4 * width * height.
C20_DecodeSize ==
  (op = "decode" /\ IsOk(output)) =>
    LET pixels == Len(output.val.rgba_data) \div 4 IN
    /\ Len(output.val.rgba_data) % 4 = 0
    /\ IF output.val.width = 0 THEN pixels = 0
       ELSE pixels % output.val.width = 0 /\ pixels \div output.val.width = output.val.height

(***************************************************************************)
(* C21..C30                                                                *)
(***************************************************************************)

\* the steps of a byte sequence (differences of neighbours modulo 256) and the
\* (count, delta) pairs of an RLE-delta stream
Deltas(x) == [i \in 1..(Len(x) - 1) |-> wrapping_sub(x[i + 1], x[i])]
NumPairs(s) == (Len(s) - 1) \div 2
PairCount(s, k) == s[2 * k]
PairDelta(s, k) == s[2 * k + 1]
\* the number of steps the pairs before the k-th stand for
CountsBefore(s, k) == Sum(LAMBDA j : PairCount(s, j), 1, k - 1)

\* C21: in a successful output of rle_delta_compression every pair
\* (count, delta) with delta # 0 has a count byte equal to the number of steps
\* it stands for: count is in 1..255, the count steps that follow the steps of
\* the earlier pairs all equal delta, and the run ends there unless it was cut
\* at 255.
C21_NonZeroRunCount ==
  (op = "rle_delta_compression" /\ IsOk(output)) =>
    LET s == output.val
        d == Deltas(input)
    IN \A k \in 1..NumPairs(s) :
         PairDelta(s, k) # 0 =>
           LET from == CountsBefore(s, k)
               count == PairCount(s, k)
           IN /\ count >= 1
              /\ count <= 255
              /\ from + count <= Len(d)
              /\ \A j \in (from + 1)..(from + count) : d[j] = PairDelta(s, k)
              /\ \/ count = 255
                 \/ from + count = Len(d)
                 \/ d[from + count + 1] # PairDelta(s, k)

\* the lengths of the maximal runs of zeros in vals, each element k counted
\* with weight(k), in order
ZeroRunStep(vals, weight(_), st, k) ==
  IF vals[k] # 0 THEN [st EXCEPT !.open = FALSE]
  ELSE IF st.open
       THEN [st EXCEPT !.sums[Len(st.sums)] = @ + weight(k)]
       ELSE [st EXCEPT !.sums = Append(@, weight(k)), !.open = TRUE]
ZeroRuns(vals, weight(_)) ==
  LET step(st, k) == ZeroRunStep(vals, weight, st, k)
  IN Iterate(step, [sums |-> <<>>, open |-> FALSE, err |-> NoError], 1, Len(vals)).sums

\* C22: in a successful output of rle_delta_compression a run of n equal bytes
\* (n steps of delta 0) is written as pairs (255, 0) followed by one pair (r, 0)
\* with 1 <= r <= 255, and their counts sum to n, for runs written inside the
\* loop and for the last run.
C22_ZeroRunSplit ==
  (op = "rle_delta_compression" /\ IsOk(output)) =>
    LET s == output.val
        d == Deltas(input)
        pair_deltas == [k \in 1..NumPairs(s) |-> PairDelta(s, k)]
    IN /\ \A k \in 1..NumPairs(s) :
            PairDelta(s, k) = 0 =>
              /\ PairCount(s, k) >= 1
              /\ PairCount(s, k) <= 255
              /\ (k < NumPairs(s) /\ PairDelta(s, k + 1) = 0) => PairCount(s, k) = 255
       /\ ZeroRuns(pair_deltas, LAMBDA k : PairCount(s, k)) = ZeroRuns(d, LAMBDA j : 1)

\* a run of 256 steps of delta 0 was written inside the loop as (255, 0), (1, 0),
\* before the pair of the last step
C22_Witness ==
  /\ Called("rle_delta_compression")
  /\ Len(input) = 258
  /\ output = Ok(<<0, 255, 0, 1, 0, 1, 7>>)

\* a last run of more than 510 steps of delta 0 was written as two pairs (255, 0)
\* and a pair with the rest
C22_WitnessFinal ==
  /\ Called("rle_delta_compression")
  /\ Len(input) > 511
  /\ IsOk(output)
  /\ Len(output.val) = 7
  /\ SubSeq(output.val, 1, 5) = <<0, 255, 0, 255, 0>>
  /\ output.val[7] = 0

\* C23: for an input of odd length >= 3 rle_delta_decompression returns data[0]
\* followed, for each pair (count, delta) in order, by count bytes, each the
\* byte before it plus delta modulo 256; the output has 1 + the sum of the
\* count bytes, and a pair with count 0 adds nothing.
C23_RleDecode ==
  (op = "rle_delta_decompression" /\ Len(input) >= 3 /\ Len(input) % 2 = 1) =>
    /\ IsOk(output)
    /\ Len(output.val) = 1 + CountsBefore(input, NumPairs(input) + 1)
    /\ output.val[1] = input[1]
    /\ \A k \in 1..NumPairs(input) :
         \A j \in 1..PairCount(input, k) :
           LET at == 1 + CountsBefore(input, k) + j
           IN output.val[at] = (output.val[at - 1] + PairDelta(input, k)) % 256

\* a run of 255 steps up that wraps, a pair of count 0 and two steps down
\* were expanded
C23_Witness ==
  /\ Called("rle_delta_decompression")
  /\ input = <<255, 255, 1, 0, 1, 2, 255>>
  /\ IsOk(output)
  /\ Len(output.val) = 258
  /\ SubSeq(output.val, 1, 3) = <<255, 0, 1>>
  /\ SubSeq(output.val, 256, 258) = <<254, 253, 252>>

\* the decoder's locals after the first n codes of the stream x
DecodedPrefix(x, n) == lzw_decomp_end(SubSeq(x, 1, 2 * n))

\* C24: in lzw_decompression a code equal to the dictionary size is accepted
\* only while next_code < 65535; it expands to previous_string followed by the
\* first byte of previous_string, and the entry inserted at that code expands
\* to the same string.  With next_code = 65535 the code is rejected as
\* InvalidCode.
C24_LzwSpecialCase ==
  op = "lzw_decompression" =>
    IF lzw.brief
    THEN (prev = NoCall /\ input.last = 255 + input.zeros) =>
           IF 255 + input.zeros < 65535
           THEN /\ IsOk(output)
                /\ output.len = input.zeros + 2
                /\ lzw.previous_code = input.last
                /\ lzw.previous_string = <<0, 0>>
                /\ lzw.previous_entry = <<0, 0>>
           ELSE output = Err(InvalidCode(input.last, 65535))
    ELSE \A j \in 1..((Len(input) \div 2) - 1) :
           LzwCode(input, j) = 255 + j =>
             LET before == DecodedPrefix(input, j)
                 after == DecodedPrefix(input, j + 1)
                 expansion == Append(before.previous_string, before.previous_string[1])
             IN (before.err = NoError /\ Len(before.dictionary) = 255 + j) =>
                  /\ before.next_code < 65535
                  /\ after.err = NoError
                  /\ after.result = before.result \o expansion
                  /\ Len(after.dictionary) = Len(before.dictionary) + 1
                  /\ get_string(after.dictionary, LzwCode(input, j)) = expansion
                  /\ (j = (Len(input) \div 2) - 1 /\ Len(input) % 2 = 0) =>
                       /\ output = Ok(after.result)
                       /\ lzw.previous_entry = expansion

\* the codes 0, 256, 257 were expanded to 0 | 0 0 | 0 0 0: both later codes were
\* the next code to be added
C24_Witness ==
  /\ Called("lzw_decompression")
  /\ ~lzw.brief
  /\ input = <<0, 0, 0, 1, 1, 1>>
  /\ output = Ok(<<0, 0, 0, 0, 0, 0>>)
  /\ lzw.previous_code = 257
  /\ lzw.previous_entry = <<0, 0, 0>>

\* the code 65534 was accepted as the next code to be added while next_code
\* was 65534
C24_WitnessLimit ==
  /\ Called("lzw_decompression")
  /\ lzw.brief
  /\ input.last = 65534
  /\ IsOk(output)
  /\ lzw.next_code = 65535
  /\ lzw.previous_entry = <<0, 0>>

\* C25: compress runs palette, RLE-delta, LZW and returns the error of the
\* first stage that fails, in that stage's wrapper; decompress runs LZW,
\* RLE-delta, palette likewise.  A later stage's error is not reported when an
\* earlier stage fails.
C25_StageOrder ==
  /\ op = "compress" =>
       LET p == palette_compression(input) IN
       IF IsErr(p) THEN output = Err(PaletteCompressionFailed(p.err))
       ELSE LET r == rle_delta_compression(p.val.indices) IN
            /\ IsErr(r) => output = Err(RleDeltaCompressionFailed(r.err))
            /\ IsOk(r) =>
                 LET l == lzw_compression(r.val) IN
                 IF IsErr(l) THEN output = Err(LzwCompressionFailed(l.err))
                 ELSE output = Ok([palette |-> p.val.palette, data |-> l.val])
  /\ op = "decompress" =>
       LET l == lzw_decompression(input.data) IN
       IF IsErr(l) THEN output = Err(LzwDecompressionFailed(l.err))
       ELSE LET r == rle_delta_decompression(l.val) IN
            IF IsErr(r) THEN output = Err(RleDeltaDecompressionFailed(r.err))
            ELSE LET e == palette_decompression([palette |-> input.palette,
                                                 indices |-> r.val]) IN
                 IF IsErr(e) THEN output = Err(PaletteDecompressionFailed(e.err))
                 ELSE output = Ok(e.val)

\* the codes 0, 0 decode to two bytes, which is no RLE-delta stream, and the
\* palette is empty: the RLE-delta error was returned, not a palette error
C25_Witness ==
  /\ Called("decompress")
  /\ input.palette = <<>>
  /\ input.data = <<0, 0, 0, 0>>
  /\ output = Err(RleDeltaDecompressionFailed(InvalidInputLength(2)))

\* a buffer of 3 bytes was rejected by the palette stage
C25_WitnessCompress ==
  /\ Called("compress")
  /\ Len(input) = 3
  /\ output = Err(PaletteCompressionFailed(InvalidPixelDataLength(3)))

\* C26: when lzw_decompression reads a stream lzw_compression returned, it
\* succeeds; every entry it defines (codes 256 and up) expands to the string
\* the encoder gave that code; a stream of n codes leaves both with the n - 1
\* entries 256..254 + n, the decoder defining each one code later than the
\* encoder, so the j-th code after the first is at most the decoder's
\* dictionary size 255 + j.
C26_LzwLockstep ==
  RoundTrip("lzw_compression", "lzw_decompression") =>
    LET n == IF lzw.brief THEN prev.output.len \div 2 ELSE Len(input) \div 2 IN
    /\ IsOk(output)
    /\ lzw.entries = IF n = 0 THEN 256 ELSE 255 + n
    /\ lzw.encoder_entries = lzw.entries
    /\ lzw.agreeing = lzw.entries - 256
    /\ IF lzw.brief THEN output.len = prev.input.walk
       ELSE /\ output.val = prev.input
            /\ \A j \in 1..(n - 1) : LzwCode(input, j) <= 255 + j

\* the stream of an input that fills the encoder's dictionary up to code 65534
\* was decoded, and the decoder defined the same 65279 entries
C26_Witness ==
  /\ RoundTrip("lzw_compression", "lzw_decompression")
  /\ lzw.brief
  /\ IsOk(output)
  /\ lzw.next_code = 65535
  /\ lzw.agreeing = 65279

\* a stream with codes that were the next code to be added was decoded: the run
\* of 257 equal bytes
C26_WitnessRun ==
  /\ RoundTrip("lzw_compression", "lzw_decompression")
  /\ ~lzw.brief
  /\ Len(prev.input) = 257
  /\ \E j \in 1..((Len(input) \div 2) - 1) : LzwCode(input, j) = 255 + j
  /\ lzw.agreeing > 0

\* C27: in lzw_decompression dictionary.len() = next_code whenever an
\* iteration starts, every entry with a code >= 256 has a prefix that is a
\* smaller code, and get_string ends for every defined code with a non-empty
\* string whose walk stops at one of the 256 single-byte entries.  The locals
\* are read at return, which is the start of the next iteration on every
\* longer stream.
C27_LzwDictionary ==
  (op = "lzw_decompression" /\ Len(lzw.previous_string) > 0) =>
    /\ lzw.entries = lzw.next_code
    /\ lzw.ordered = lzw.entries - 256
    /\ lzw.expanding = lzw.entries
    /\ lzw.previous_code < lzw.entries
    /\ lzw.previous_entry = lzw.previous_string

\* three codes were read, two of them the next code to be added, and the two
\* entries defined point to smaller codes
C27_Witness ==
  /\ Called("lzw_decompression")
  /\ input = <<0, 0, 0, 1, 1, 1>>
  /\ lzw.entries = 258
  /\ lzw.ordered = 2
  /\ lzw.expanding = 258

\* the dictionary was filled up to code 65534 by a stream of codes 0
C27_WitnessLimit ==
  /\ Called("lzw_decompression")
  /\ lzw.brief
  /\ lzw.entries = 65535
  /\ lzw.ordered = 65279
  /\ lzw.expanding = 65535

\* C28: decompress of any palette and any byte sequence returns Ok or a
\* DecompressionError; no stage reads out of range (previous_string[0] in
\* lzw_decompression, the delta in rle_delta_decompression, the palette entry
\* in palette_decompression).
C28_DecompressTotal ==
  op = "decompress" =>
    \/ IsOk(output) /\ Len(output.val) % 4 = 0
    \/ /\ IsErr(output)
       /\ output.err.kind \in {"LzwDecompressionFailed", "RleDeltaDecompressionFailed",
                               "PaletteDecompressionFailed"}

\* the codes 255, 256 (the second is the next code to be added) decode to
\* 255, 255, 255: a run of 255 steps down from index 255, expanded with a
\* palette of 256 colours
C28_Witness ==
  /\ Called("decompress")
  /\ input.data = <<255, 0, 0, 1>>
  /\ Len(input.palette) = 256
  /\ IsOk(output)
  /\ Len(output.val) = 1024

\* C29: encode never returns PaletteTooLarge; an image with more than 256
\* colours is reported as CompressionFailed(PaletteCompressionFailed(
\* PaletteOverflow)).
C29_PaletteTooLarge ==
  op = "encode" =>
    /\ output # Err(PaletteTooLarge)
    /\ (IsRgba(input.rgba_data) /\ Cardinality(ColoursOf(input.rgba_data)) > 256) =>
         /\ IsErr(output)
         /\ output.err.kind = "CompressionFailed"
         /\ output.err.inner.kind = "PaletteCompressionFailed"
         /\ output.err.inner.inner.kind = "PaletteOverflow"
    /\ IsOk(output) => Cardinality(ColoursOf(input.rgba_data)) <= 256

\* an image of 257 colours was refused by the palette stage
C29_Witness ==
  /\ Called("encode")
  /\ Cardinality(ColoursOf(input.rgba_data)) = 257
  /\ output = Err(CompressionFailed(PaletteCompressionFailed(PaletteOverflow(257))))

\* an image of 256 colours was written
C29_WitnessFull ==
  /\ Called("encode")
  /\ Cardinality(ColoursOf(input.rgba_data)) = 256
  /\ IsOk(output)

\* C30: starting from Palette::new() and after any sequence of add_color,
\* remove_color, switch_color, set_color and set_current_color the palette has
\* between 1 and 256 colours and current_color < colors.len(), and
\* get_current_color does not fail.
C30_EditorPalette ==
  /\ get_palette_length(editor.palette) >= 1
  /\ get_palette_length(editor.palette) <= 256
  /\ editor.palette.current_color < get_palette_length(editor.palette)
  /\ ~editor.panicked

====
